---- MODULE Spec2Model ----
(***************************************************************************)
(* PyRDF: backend selection, the process-wide include registries and the   *)
(* Parsl map/reduce orchestration (PyRDF/__init__.py, backend/Parsl.py).   *)
(***************************************************************************)
EXTENDS Integers, Sequences, FiniteSets, TLC

VARIABLES
    current_backend,            \* PyRDF.current_backend
    includes_headers,           \* PyRDF.includes_headers
    includes_shared_libraries,  \* PyRDF.includes_shared_libraries
    includes_files,             \* PyRDF.includes_files
    declared,                   \* files declared to the local interpreter
    pushed,                     \* per file: number of addFile pushes
    last,                       \* the last driver call and how it ended
    pc,                         \* position of the driver in ProcessAndMerge
    mapper, reducer,            \* arguments of the running ProcessAndMerge
    total_units,                \* entries of the data source being processed
    ranges,                     \* local `ranges` of ProcessAndMerge
    results,                    \* local `results`: the worklist of futures
    futures,                    \* the tasks submitted to parsl, by id
    awaited,                    \* the future popped at line 78
    ret,                        \* value returned by ProcessAndMerge
    raised,                     \* exception raised by ProcessAndMerge
    initialization,             \* the stored initialization task, or None
    driver_runs,                \* runs of an initialization task in the driver
    workers                     \* the worker processes of the backend

vars == <<current_backend, includes_headers, includes_shared_libraries,
          includes_files, declared, pushed, last, pc, mapper, reducer,
          total_units, ranges, results, futures, awaited, ret, raised,
          initialization, driver_runs, workers>>

initVars == <<initialization, driver_runs, workers>>
registryVars == <<includes_headers, includes_shared_libraries, includes_files,
                  declared, pushed>>
mergeVars == <<pc, mapper, reducer, total_units, ranges, results, futures,
               awaited, ret, raised>>

-----------------------------------------------------------------------------
(* Bounds *)
MaxPartitions == 5      \* largest npartitions of a backend that runs a merge
MaxUnits == 5           \* largest number of entries handed to build_ranges
MaxPush == 2            \* pushes of one file that are followed
MaxConfPartitions == 2  \* largest explicit 'npartitions' handed to use()
MaxThreads == 3         \* largest max_threads of a thread pool handed to use()
MaxInit == 2            \* calls of initialize() that are followed
MaxWorkers == 2         \* worker processes of a distributed backend
MaxMaps == 3            \* mapper tasks one worker runs

-----------------------------------------------------------------------------
(* Python values *)
None == <<>>                    \* Python None
Some(v) == <<v>>                \* a present integer value
Truthy(o) == o # None /\ o[1] # 0
PyOr(a, b) == IF Truthy(a) THEN a ELSE b    \* Python `a or b`

-----------------------------------------------------------------------------
(* Partial results, mappers and reducers.  A partial result is a sequence   *)
(* of integers.  "concat" is the free associative reducer (associative,     *)
(* not commutative); "sum" is associative and commutative.                  *)
Mappers == {"start", "count"}
Reducers == {"concat", "sum"}

Mapper(m, rng) ==
    IF m = "start" THEN <<rng.start>> ELSE <<rng.end - rng.start>>

Total(l) == IF l = <<>> THEN 0 ELSE l[1]
Reducer(r, l1, l2) ==
    IF r = "concat" THEN l1 \o l2 ELSE <<Total(l1) + Total(l2)>>

\* app_map: the body of the map task
app_map(m, x) == Mapper(m, x)

\* app_reduce: the body of the reduce task
app_reduce_swapped(r, l1, l2) == Reducer(r, l2, l1)
app_reduce(r, l1, l2) == Reducer(r, l1, l2)

-----------------------------------------------------------------------------
(* Dist.build_ranges: balanced contiguous ranges over [0, total_units)      *)
RECURSIVE RangesFrom(_, _, _, _)
RangesFrom(start, i, n, sizes) ==
    IF i > n THEN <<>>
    ELSE <<[start |-> start, end |-> start + sizes[i]]>>
         \o RangesFrom(start + sizes[i], i + 1, n, sizes)

\* always npartitions ranges, empty ones included
build_ranges_padded(units, npartitions) ==
    LET n == npartitions
        base == units \div n
        remainder == units % n
        sizes == [i \in 1..n |-> IF i <= remainder THEN base + 1 ELSE base]
    IN RangesFrom(0, 1, n, sizes)

build_ranges(units, npartitions) ==
    LET n == IF units < npartitions THEN units ELSE npartitions
        base == IF n = 0 THEN 0 ELSE units \div n
        remainder == IF n = 0 THEN 0 ELSE units % n
        sizes == [i \in 1..n |-> IF i <= remainder THEN base + 1 ELSE base]
    IN RangesFrom(0, 1, n, sizes)

-----------------------------------------------------------------------------
(* Futures *)
MapFuture(rng) ==
    [kind |-> "map", rng |-> rng, left |-> 0, right |-> 0,
     state |-> "pending", value |-> <<>>]
ReduceFuture(l1, l2) ==
    [kind |-> "reduce", rng |-> 0, left |-> l1, right |-> l2,
     state |-> "pending", value |-> <<>>]

\* list.pop(i): Python index 0 is position 1 here
RemoveAtKeeping(w, i) == w
RemoveAt(w, i) == SubSeq(w, 1, i - 1) \o SubSeq(w, i + 1, Len(w))

\* the position popped by results.pop(0) at line 77
PopReadyFirst(w) ==
    IF \E i \in 1..Len(w) : futures[w[i]].state = "done"
    THEN CHOOSE i \in 1..Len(w) :
            /\ futures[w[i]].state = "done"
            /\ \A j \in 1..(i - 1) : futures[w[j]].state # "done"
    ELSE 1
PopBack(w) == Len(w)
PopFront(w) == 1

-----------------------------------------------------------------------------
(* Parsl.ProcessAndMerge *)

\* line 68: ranges = self.build_ranges(); line 70: results = []
ProcessAndMerge(m, r, units) ==
    /\ pc \in {"idle", "returned", "raised"}
    /\ current_backend.kind = "Parsl"
    /\ mapper' = m
    /\ reducer' = r
    /\ total_units' = units
    /\ ranges' = build_ranges(units, current_backend.npartitions)
    /\ results' = <<>>
    /\ futures' = <<>>
    /\ awaited' = 0
    /\ ret' = <<>>
    /\ raised' = "none"
    /\ pc' = IF ranges' = <<>> THEN "reduce" ELSE "map"
    /\ UNCHANGED initVars
    /\ UNCHANGED <<current_backend, registryVars, last>>

\* lines 71-73: one iteration of `for i in ranges`
SubmitMap ==
    /\ pc = "map"
    /\ Len(results) < Len(ranges)
    /\ futures' = Append(futures, MapFuture(Len(results) + 1))
    /\ results' = Append(results, Len(futures) + 1)
    /\ pc' = IF Len(results) + 1 = Len(ranges) THEN "reduce" ELSE "map"
    /\ UNCHANGED initVars
    /\ UNCHANGED <<current_backend, registryVars, last, mapper, reducer,
                   total_units, ranges, awaited, ret, raised>>

\* lines 75-77 with the operands awaited before the reduce is submitted
SubmitReduceBlocking ==
    /\ pc = "reduce"
    /\ Len(results) > 1
    /\ futures[results[1]].state # "pending"
    /\ futures[results[2]].state # "pending"
    /\ futures' = Append(futures, ReduceFuture(results[1], results[2]))
    /\ results' = Append(SubSeq(results, 3, Len(results)), Len(futures) + 1)
    /\ UNCHANGED initVars
    /\ UNCHANGED <<current_backend, registryVars, last, pc, mapper, reducer,
                   total_units, ranges, awaited, ret, raised>>

\* lines 75-77: one iteration of `while len(results) > 1`
SubmitReduce ==
    /\ pc = "reduce"
    /\ Len(results) > 1
    /\ LET i1 == PopFront(results)
           l1 == results[i1]
           rest1 == RemoveAt(results, i1)
           i2 == PopFront(rest1)
           l2 == rest1[i2]
           rest2 == RemoveAt(rest1, i2)
       IN /\ futures' = Append(futures, ReduceFuture(l1, l2))
          /\ results' = Append(rest2, Len(futures) + 1)
    /\ UNCHANGED initVars
    /\ UNCHANGED <<current_backend, registryVars, last, pc, mapper, reducer,
                   total_units, ranges, awaited, ret, raised>>

\* line 78: results.pop() once the loop guard is false; list.pop() on an
\* empty list raises IndexError
PopLast ==
    /\ pc = "reduce"
    /\ Len(results) <= 1
    /\ IF results = <<>>
       THEN /\ raised' = "IndexError"
            /\ pc' = "raised"
            /\ UNCHANGED <<results, awaited>>
       ELSE /\ awaited' = results[Len(results)]
            /\ results' = SubSeq(results, 1, Len(results) - 1)
            /\ pc' = "await"
            /\ UNCHANGED raised
    /\ UNCHANGED initVars
    /\ UNCHANGED <<current_backend, registryVars, last, mapper, reducer,
                   total_units, ranges, futures, ret>>

\* a future has resolved: with a value, or with an exception
Resolved(f) == futures[f].state \in {"done", "failed"}

\* line 78: .result() blocks until the popped future has resolved, and
\* re-raises the exception of a failed one
ResultTimeout ==
    /\ pc = "await"
    /\ ret' = futures[awaited].value
    /\ pc' = "returned"
    /\ UNCHANGED initVars
    /\ UNCHANGED <<current_backend, registryVars, last, mapper, reducer,
                   total_units, ranges, results, futures, awaited, raised>>
Result ==
    /\ pc = "await"
    /\ Resolved(awaited)
    /\ IF futures[awaited].state = "failed"
       THEN /\ raised' = "TaskError"
            /\ pc' = "raised"
            /\ UNCHANGED ret
       ELSE /\ ret' = futures[awaited].value
            /\ pc' = "returned"
            /\ UNCHANGED raised
    /\ UNCHANGED initVars
    /\ UNCHANGED <<current_backend, registryVars, last, mapper, reducer,
                   total_units, ranges, results, futures, awaited>>

\* a worker runs a submitted map task (lines 9-11)
RunMap(f) ==
    /\ futures[f].kind = "map"
    /\ futures[f].state = "pending"
    /\ futures' = [futures EXCEPT
                     ![f].state = "done",
                     ![f].value = app_map(mapper, ranges[futures[f].rng])]
    /\ UNCHANGED initVars
    /\ UNCHANGED <<current_backend, registryVars, last, pc, mapper, reducer,
                   total_units, ranges, results, awaited, ret, raised>>

\* the mapper raises inside a map task: the future holds the exception
FailMap(f) ==
    /\ futures[f].kind = "map"
    /\ futures[f].state = "pending"
    /\ futures' = [futures EXCEPT ![f].state = "failed"]
    /\ UNCHANGED initVars
    /\ UNCHANGED <<current_backend, registryVars, last, pc, mapper, reducer,
                   total_units, ranges, results, awaited, ret, raised>>

\* an argument future of the reduce task holds an exception
DependencyFailedIgnored(f) == FALSE
DependencyFailed(f) ==
    \/ futures[futures[f].left].state = "failed"
    \/ futures[futures[f].right].state = "failed"

\* a submitted reduce task (lines 13-15): parsl starts an app only when the
\* futures among its arguments have resolved, and fails it without running
\* it when one of them failed
RunReduce(f) ==
    /\ futures[f].kind = "reduce"
    /\ futures[f].state = "pending"
    /\ Resolved(futures[f].left)
    /\ Resolved(futures[f].right)
    /\ futures' =
         IF DependencyFailed(f)
         THEN [futures EXCEPT ![f].state = "failed"]
         ELSE [futures EXCEPT
                 ![f].state = "done",
                 ![f].value = app_reduce(reducer,
                                         futures[futures[f].left].value,
                                         futures[futures[f].right].value)]
    /\ UNCHANGED initVars
    /\ UNCHANGED <<current_backend, registryVars, last, pc, mapper, reducer,
                   total_units, ranges, results, awaited, ret, raised>>

\* the reducer raises inside a reduce task
FailReduce(f) ==
    /\ futures[f].kind = "reduce"
    /\ futures[f].state = "pending"
    /\ futures[futures[f].left].state = "done"
    /\ futures[futures[f].right].state = "done"
    /\ futures' = [futures EXCEPT ![f].state = "failed"]
    /\ UNCHANGED initVars
    /\ UNCHANGED <<current_backend, registryVars, last, pc, mapper, reducer,
                   total_units, ranges, results, awaited, ret, raised>>

-----------------------------------------------------------------------------
(* The file system seen by os.path.isdir / os.path.isfile / os.walk *)
Files == {"a.h", "lib/x.so", "lib/x.pcm"}
Dirs == {"lib"}
Walk(d) == {"lib/x.so", "lib/x.pcm"}        \* files beneath directory "lib"
PcmFiles == {"lib/x.pcm"}                   \* filepath.endswith(".pcm")
LibraryFiles == {"lib/x.so"}    \* filepath.endswith((".so", ".dll", ".dylib"))

\* arguments of the registration entry points: a str or an iterable of str
StrArg(p) == [isstr |-> TRUE, paths |-> <<p>>]
IterArg(ps) == [isstr |-> FALSE, paths |-> ps]
PathArgs ==
    {StrArg(p) : p \in {"a.h", "lib", "nofile"}}
    \cup {IterArg(ps) : ps \in {<<>>, <<"a.h", "lib">>, <<"a.h", "nofile">>}}

\* _get_paths_set_from_string: a set of paths, or None for a path that is
\* neither a directory nor a file (the function falls off its end)
NoPaths == [isNone |-> TRUE, paths |-> {}]
PathSet(ps) == [isNone |-> FALSE, paths |-> ps]
get_paths_set_lenient(path_string) ==
    IF path_string \in Dirs THEN PathSet(Walk(path_string))
    ELSE IF path_string \in Files THEN PathSet({path_string})
    ELSE PathSet({})
get_paths_set_from_string(path_string) ==
    IF path_string \in Dirs THEN PathSet(Walk(path_string))
    ELSE IF path_string \in Files THEN PathSet({path_string})
    ELSE NoPaths

\* lines 162-166 / 233-237: set.update(None) raises TypeError
RECURSIVE UpdateFromPaths(_, _)
UpdateFromPaths(paths, acc) ==
    IF paths = <<>> THEN [err |-> "none", set |-> acc]
    ELSE LET r == get_paths_set_from_string(Head(paths))
         IN IF r.isNone THEN [err |-> "TypeError", set |-> acc]
            ELSE UpdateFromPaths(Tail(paths), acc \cup r.paths)

\* _check_pcm_in_library_path: iterating None raises TypeError
check_pcm_in_library_path(shared_library_path) ==
    LET all_paths == get_paths_set_from_string(shared_library_path)
    IN IF all_paths.isNone
       THEN [err |-> "TypeError", pcm |-> {}, libraries |-> {}]
       ELSE [err |-> "none",
             pcm |-> all_paths.paths \cap PcmFiles,
             libraries |-> all_paths.paths \cap LibraryFiles]

\* lines 198-208
RECURSIVE UpdateFromLibraryPaths(_, _, _)
UpdateFromLibraryPaths(paths, pcmacc, libacc) ==
    IF paths = <<>>
    THEN [err |-> "none", pcm |-> pcmacc, libraries |-> libacc]
    ELSE LET r == check_pcm_in_library_path(Head(paths))
         IN IF r.err # "none"
            THEN [err |-> r.err, pcm |-> pcmacc, libraries |-> libacc]
            ELSE UpdateFromLibraryPaths(Tail(paths), pcmacc \cup r.pcm,
                                        libacc \cup r.libraries)

-----------------------------------------------------------------------------
(* Backends *)
Local == [kind |-> "Local"]
Spark == [kind |-> "Spark"]
ParslBackend(n) == [kind |-> "Parsl", npartitions |-> n]

\* isinstance(current_backend, Local)
IsLocalNever(b) == FALSE
IsLocal(b) == b.kind = "Local"

\* Parsl.distribute_files (lines 93-94): a Parsl instance has no attribute
\* sparkContext, so the first iteration raises AttributeError
Parsl_distribute_files(includes_list) ==
    IF includes_list = {} THEN [err |-> "none", sent |-> {}]
    ELSE [err |-> "AttributeError", sent |-> {}]

\* Spark.distribute_files: SparkContext.addFile for every path
Spark_distribute_files(includes_list) ==
    [err |-> "none", sent |-> includes_list]

distribute_files(b, includes_list) ==
    IF b.kind = "Parsl" THEN Parsl_distribute_files(includes_list)
    ELSE Spark_distribute_files(includes_list)

\* set.update(other)
UpdateSetToggle(s, other) == (s \ other) \cup (other \ s)
UpdateSet(s, other) == s \cup other

Push(sent) == [f \in Files |-> IF f \in sent THEN pushed[f] + 1 ELSE pushed[f]]

-----------------------------------------------------------------------------
(* Backend construction and selection.  The driver is single-threaded: its *)
(* entry points run only while no ProcessAndMerge call is in progress.     *)
DriverFree == pc \in {"idle", "returned", "raised"}

DefaultPartitions == 4

\* configuration dictionaries handed to use(): a function whose domain is
\* the set of keys present
EmptyDict == [k \in {} |-> 0]
ExecutorNames == {"ThreadPoolExecutor", "HighThroughputExecutor",
                  "NoSuchExecutor"}
ExecutorConfigs ==
    {EmptyDict}
    \cup {("executor" :> e) : e \in ExecutorNames}
    \cup {("executor" :> "ThreadPoolExecutor")
          @@ ("parameters" :> [max_threads |-> t]) :
             t \in {None} \cup {Some(n) : n \in 1..MaxThreads}}
    \cup {("executor" :> e) @@ ("parameters" :> EmptyDict) :
             e \in {"HighThroughputExecutor", "NoSuchExecutor"}}
Configs ==
    {e @@ n : e \in ExecutorConfigs,
              n \in {EmptyDict} \cup
                    {("npartitions" :> k) : k \in 1..MaxConfPartitions}}

\* names defined in the globals() of backend/Parsl.py that name an executor
ExecutorClasses == {"ThreadPoolExecutor", "HighThroughputExecutor"}

\* the executor object built at line 39: its attributes
Executor(class, parameters) ==
    IF class = "ThreadPoolExecutor"
    THEN [class |-> class, max_threads |-> parameters["max_threads"]]
    ELSE [class |-> class]

\* Dist.__init__: the 'npartitions' entry of the configuration, or None
Dist_npartitions(conf) ==
    IF "npartitions" \in DOMAIN conf THEN Some(conf["npartitions"]) ELSE None

\* Parsl._get_partitions (lines 48-51)
get_partitions(npartitions, executor) ==
    IF Truthy(npartitions)
    THEN [err |-> "none", npart |-> npartitions[1]]
    ELSE IF "max_threads" \notin DOMAIN executor
    THEN [err |-> "AttributeError", npart |-> 0]
    ELSE [err |-> "none",
          npart |-> PyOr(executor["max_threads"], Some(DefaultPartitions))[1]]

\* Parsl.__init__ (lines 37-46)
Parsl_init(conf) ==
    IF \/ "executor" \notin DOMAIN conf
       \/ conf["executor"] \notin ExecutorClasses
       \/ "parameters" \notin DOMAIN conf
    THEN [err |-> "KeyError", backend |-> Local]
    ELSE LET executor == Executor(conf["executor"], conf["parameters"])
             p == get_partitions(Dist_npartitions(conf), executor)
         IN IF p.err # "none" THEN [err |-> p.err, backend |-> Local]
            ELSE [err |-> "none", backend |-> ParslBackend(p.npart)]

BackendNames == {"local", "spark", "parsl", "dask", "ray"}
future_backends_empty == {}
future_backends == {"dask"}

UseCall(name, conf, err) ==
    [op |-> "use", name |-> name, conf |-> conf, err |-> err]

use_assigning_before_construction(backend_name, conf) ==
    /\ DriverFree
    /\ IF backend_name \in future_backends
       THEN /\ last' = UseCall(backend_name, conf, "NotImplementedError")
            /\ UNCHANGED current_backend
       ELSE IF backend_name = "local"
       THEN /\ current_backend' = Local
            /\ last' = UseCall(backend_name, conf, "none")
       ELSE IF backend_name = "spark"
       THEN /\ current_backend' = Spark
            /\ last' = UseCall(backend_name, conf, "none")
       ELSE IF backend_name = "parsl"
       THEN LET b == Parsl_init(conf)
            IN /\ current_backend' = b.backend
               /\ last' = UseCall(backend_name, conf, b.err)
       ELSE /\ last' = UseCall(backend_name, conf, "Exception")
            /\ UNCHANGED current_backend
    /\ UNCHANGED initVars
    /\ UNCHANGED <<registryVars, mergeVars>>
\* use (lines 43-79)
use(backend_name, conf) ==
    /\ DriverFree
    /\ IF backend_name \in future_backends
       THEN /\ last' = UseCall(backend_name, conf, "NotImplementedError")
            /\ UNCHANGED current_backend
       ELSE IF backend_name = "local"
       THEN /\ current_backend' = Local
            /\ last' = UseCall(backend_name, conf, "none")
       ELSE IF backend_name = "spark"
       THEN /\ current_backend' = Spark
            /\ last' = UseCall(backend_name, conf, "none")
       ELSE IF backend_name = "parsl"
       THEN LET b == Parsl_init(conf)
            IN /\ current_backend' =
                     IF b.err = "none" THEN b.backend ELSE current_backend
               /\ last' = UseCall(backend_name, conf, b.err)
       ELSE /\ last' = UseCall(backend_name, conf, "Exception")
            /\ UNCHANGED current_backend
    /\ UNCHANGED initVars
    /\ UNCHANGED <<registryVars, mergeVars>>

-----------------------------------------------------------------------------
(* Operation support of the distributed backends (Dist.check_supported) *)
Operations ==
    [Histo1D |-> "Action", Define |-> "Transformation", Take |-> "Action",
     Snapshot |-> "Action", Foreach |-> "Action", Range |-> "Transformation"]
operations_not_supported_no_range == {"Take", "Snapshot", "Foreach"}
operations_not_supported == {"Take", "Snapshot", "Foreach", "Range"}
OperationNames == DOMAIN Operations \cup {"random"}
Modes == {"single_worker", "multi_worker"}

SupportOutcome(op_name, mode) ==
    IF op_name \notin DOMAIN Operations THEN "UnknownOperationError"
    ELSE IF mode = "multi_worker" /\ op_name \in operations_not_supported
    THEN "UnsupportedOperationError"
    ELSE "none"

check_supported(op_name, mode) ==
    /\ DriverFree
    /\ ~IsLocal(current_backend)
    /\ LET err == SupportOutcome(op_name, mode)
       IN last' = [op |-> "check_supported", name |-> op_name, mode |-> mode,
                   err |-> err,
                   kind |-> IF err = "none" THEN Operations[op_name]
                            ELSE "none"]
    /\ UNCHANGED initVars
    /\ UNCHANGED <<current_backend, registryVars, mergeVars>>

-----------------------------------------------------------------------------
(* Registration entry points *)
\* the record of a registration call: how it ended, how many times it called
\* distribute_files, and whether it repeats the call made just before it
RegCall(op, arg, err, ndist) ==
    [op |-> op, arg |-> arg, err |-> err, ndist |-> ndist,
     again |-> (last.op = op /\ last.arg = arg)]

\* include_headers (lines 148-176)
include_headers(headers_paths) ==
    /\ DriverFree
    /\ LET r == UpdateFromPaths(headers_paths.paths, {})
           headers_to_include == r.set
           d == IF IsLocal(current_backend) THEN [err |-> "none", sent |-> {}]
                ELSE distribute_files(current_backend, headers_to_include)
           ndist == IF IsLocal(current_backend) THEN 0 ELSE 1
       IN IF r.err # "none"
          THEN /\ last' = RegCall("include_headers", headers_paths, r.err, 0)
               /\ UNCHANGED registryVars
          ELSE IF d.err # "none"
          THEN /\ last' = RegCall("include_headers", headers_paths, d.err,
                                  ndist)
               /\ UNCHANGED registryVars
          ELSE /\ \A f \in d.sent : pushed[f] < MaxPush
               /\ pushed' = Push(d.sent)
               /\ declared' = declared \cup headers_to_include
               /\ includes_headers' =
                      UpdateSet(includes_headers, headers_to_include)
               /\ last' = RegCall("include_headers", headers_paths, "none",
                                  ndist)
               /\ UNCHANGED <<includes_shared_libraries, includes_files>>
    /\ UNCHANGED initVars
    /\ UNCHANGED <<current_backend, mergeVars>>

\* include_shared_libraries (lines 179-219)
include_shared_libraries(shared_libraries_paths) ==
    /\ DriverFree
    /\ LET r == UpdateFromLibraryPaths(shared_libraries_paths.paths, {}, {})
           libraries_to_include == r.libraries
           pcm_to_include == r.pcm
           d1 == IF IsLocal(current_backend)
                 THEN [err |-> "none", sent |-> {}]
                 ELSE distribute_files(current_backend, libraries_to_include)
           d2 == IF IsLocal(current_backend)
                 THEN [err |-> "none", sent |-> {}]
                 ELSE distribute_files(current_backend, pcm_to_include)
       IN IF r.err # "none"
          THEN /\ last' = RegCall("include_shared_libraries",
                                  shared_libraries_paths, r.err, 0)
               /\ UNCHANGED registryVars
          ELSE IF d1.err # "none"
          THEN /\ last' = RegCall("include_shared_libraries",
                                  shared_libraries_paths, d1.err, 1)
               /\ UNCHANGED registryVars
          ELSE IF d2.err # "none"
          THEN /\ \A f \in d1.sent : pushed[f] < MaxPush
               /\ pushed' = Push(d1.sent)
               /\ last' = RegCall("include_shared_libraries",
                                  shared_libraries_paths, d2.err, 2)
               /\ UNCHANGED <<includes_headers, includes_shared_libraries,
                              includes_files, declared>>
          ELSE /\ \A f \in d1.sent \cup d2.sent : pushed[f] < MaxPush
               /\ pushed' = Push(d1.sent \cup d2.sent)
               /\ declared' = declared \cup libraries_to_include
               \* line 219 updates the set with itself
               /\ includes_shared_libraries' =
                      UpdateSet(includes_shared_libraries,
                                includes_shared_libraries)
               /\ last' = RegCall("include_shared_libraries",
                                  shared_libraries_paths, "none",
                                  IF IsLocal(current_backend) THEN 0 ELSE 2)
               /\ UNCHANGED <<includes_headers, includes_files>>
    /\ UNCHANGED initVars
    /\ UNCHANGED <<current_backend, mergeVars>>

\* send_generic_files (lines 222-241)
send_generic_files(files_paths) ==
    /\ DriverFree
    /\ LET r == UpdateFromPaths(files_paths.paths, {})
           files_to_include == r.set
           d == IF IsLocal(current_backend) THEN [err |-> "none", sent |-> {}]
                ELSE distribute_files(current_backend, files_to_include)
           ndist == IF IsLocal(current_backend) THEN 0 ELSE 1
       IN IF r.err # "none"
          THEN /\ last' = RegCall("send_generic_files", files_paths, r.err, 0)
               /\ UNCHANGED registryVars
          ELSE IF d.err # "none"
          THEN /\ last' = RegCall("send_generic_files", files_paths, d.err,
                                  ndist)
               /\ UNCHANGED registryVars
          ELSE /\ \A f \in d.sent : pushed[f] < MaxPush
               /\ pushed' = Push(d.sent)
               /\ last' = RegCall("send_generic_files", files_paths, "none",
                                  ndist)
               /\ UNCHANGED <<includes_headers, includes_shared_libraries,
                              includes_files, declared>>
    /\ UNCHANGED initVars
    /\ UNCHANGED <<current_backend, mergeVars>>

-----------------------------------------------------------------------------
(* Initialization of the driver and of the workers *)
InitFunctions == {"init_a", "init_b"}
Workers == 1..MaxWorkers

\* Backend.register_initialization: runs the function in the calling
\* process and stores it, replacing a task stored before
register_initialization(fun) ==
    /\ driver_runs' = driver_runs + 1
    /\ initialization' = Some(fun)

\* initialize (lines 244-261)
initialize_without_delegation(fun) ==
    /\ DriverFree
    /\ driver_runs < MaxInit
    /\ last' = [op |-> "initialize", fn |-> fun, err |-> "none"]
    /\ UNCHANGED <<current_backend, registryVars, mergeVars, initVars>>
initialize(fun) ==
    /\ DriverFree
    /\ driver_runs < MaxInit
    /\ register_initialization(fun)
    /\ last' = [op |-> "initialize", fn |-> fun, err |-> "none"]
    /\ UNCHANGED <<current_backend, registryVars, mergeVars, workers>>

NotStarted == [alive |-> FALSE, stored |-> None, maps |-> 0, inits |-> <<>>]

\* a worker process of the distributed backend starts; `stored` keeps the
\* task that was registered by then
WorkerStart(w) ==
    /\ ~IsLocal(current_backend)
    /\ ~workers[w].alive
    /\ workers' = [workers EXCEPT
                     ![w] = [alive |-> TRUE, stored |-> initialization,
                             maps |-> 0, inits |-> <<>>]]
    /\ UNCHANGED <<current_backend, registryVars, last, mergeVars,
                   initialization, driver_runs>>

\* a worker runs one mapper task; its first one is preceded by the stored
\* initialization task, if there is one
WorkerMap(w) ==
    /\ workers[w].alive
    /\ workers[w].maps < MaxMaps
    /\ workers' = [workers EXCEPT
                     ![w].maps = @ + 1,
                     ![w].inits = IF workers[w].maps = 0
                                  THEN @ \o initialization ELSE @]
    /\ UNCHANGED <<current_backend, registryVars, last, mergeVars,
                   initialization, driver_runs>>

-----------------------------------------------------------------------------
(* The merge specification: a Parsl backend runs ProcessAndMerge calls *)
NoCall == [op |-> "none"]

InitRegistry ==
    /\ includes_headers = {}
    /\ includes_shared_libraries = {}
    /\ includes_files = {}
    /\ declared = {}
    /\ pushed = [f \in Files |-> 0]
    /\ last = NoCall

InitMergeVars ==
    /\ pc = "idle"
    /\ mapper = "start"
    /\ reducer = "concat"
    /\ total_units = 0
    /\ ranges = <<>>
    /\ results = <<>>
    /\ futures = <<>>
    /\ awaited = 0
    /\ ret = <<>>
    /\ raised = "none"

InitInitialization ==
    /\ initialization = None
    /\ driver_runs = 0
    /\ workers = [w \in Workers |-> NotStarted]

InitMerge ==
    /\ current_backend \in
         {ParslBackend(n) : n \in 1..MaxPartitions}
    /\ InitRegistry
    /\ InitMergeVars
    /\ InitInitialization

NextMerge ==
    \/ \E m \in Mappers, r \in Reducers, units \in 0..MaxUnits :
          ProcessAndMerge(m, r, units)
    \/ SubmitMap
    \/ SubmitReduce
    \/ PopLast
    \/ Result
    \/ \E f \in DOMAIN futures : RunMap(f)
    \/ \E f \in DOMAIN futures : FailMap(f)
    \/ \E f \in DOMAIN futures : RunReduce(f)
    \/ \E f \in DOMAIN futures : FailReduce(f)

SpecMerge == InitMerge /\ [][NextMerge]_vars

\* the same with a fair substrate: the driver keeps running and every
\* submitted task whose arguments have resolved is eventually run
FairMerge ==
    /\ WF_vars(SubmitMap)
    /\ WF_vars(SubmitReduce)
    /\ WF_vars(PopLast)
    /\ WF_vars(Result)
    /\ WF_vars(\E f \in DOMAIN futures : RunMap(f))
    /\ WF_vars(\E f \in DOMAIN futures : RunReduce(f))

SpecMergeFair == InitMerge /\ [][NextMerge]_vars /\ FairMerge

-----------------------------------------------------------------------------
(* The driver specification: a session of backend selections, registrations *)
(* and operation checks                                                     *)
Init ==
    /\ current_backend = Local
    /\ InitRegistry
    /\ InitMergeVars
    /\ InitInitialization

Next ==
    \/ \E name \in BackendNames, conf \in Configs :
          use(name, conf)
    \/ \E a \in PathArgs : include_headers(a)
    \/ \E a \in PathArgs : include_shared_libraries(a)
    \/ \E a \in PathArgs : send_generic_files(a)
    \/ \E op \in OperationNames, mode \in Modes : check_supported(op, mode)

Spec == Init /\ [][Next]_vars

(* The initialization specification: a session that registers *)
(* initialization tasks, selects a backend and runs mapper tasks on workers *)
NextInit ==
    \/ \E fun \in InitFunctions : initialize(fun)
    \/ \E name \in {"local", "spark"} : use(name, EmptyDict)
    \/ \E w \in Workers : WorkerStart(w)
    \/ \E w \in Workers : WorkerMap(w)

SpecInit == Init /\ [][NextInit]_vars

-----------------------------------------------------------------------------
(* Properties of ProcessAndMerge (checked under SpecMerge) *)

\* the partial results p_i = mapper(range_i), in range order
Partials == [i \in 1..Len(ranges) |-> Mapper(mapper, ranges[i])]

\* reducer(...reducer(reducer(p0, p1), p2)..., p(n-1))
RECURSIVE SerialFold(_, _, _)
SerialFold(r, acc, rest) ==
    IF rest = <<>> THEN acc
    ELSE SerialFold(r, Reducer(r, acc, Head(rest)), Tail(rest))

\* the value of the worklist loop run on resolved values, one thread
RECURSIVE FoldWorklist(_, _)
FoldWorklist(r, w) ==
    IF Len(w) = 1 THEN w[1]
    ELSE FoldWorklist(r, Append(SubSeq(w, 3, Len(w)), Reducer(r, w[1], w[2])))

\* the operand pairs of the reduce tasks as a function of the worklist of
\* future ids alone
RECURSIVE PairPlan(_, _)
PairPlan(w, next) ==
    IF Len(w) <= 1 THEN <<>>
    ELSE <<<<w[1], w[2]>>>>
         \o PairPlan(Append(SubSeq(w, 3, Len(w)), next), next + 1)

\* C1: for n >= 1 ranges the value returned by ProcessAndMerge equals the
\* serial left-to-right fold of the partial results taken in range order.
C1_ReturnsSerialFold ==
    (pc = "returned" /\ Len(ranges) >= 1) =>
        ret = SerialFold(reducer, Partials[1], Tail(Partials))

\* C2: the returned value and the operands of every reduce task are fixed by
\* the inputs at submission time, whatever the order in which the map and
\* reduce tasks complete.
C2_SameUnderEveryInterleaving ==
    LET n == Len(ranges)
        plan == PairPlan([i \in 1..n |-> i], n + 1)
    IN /\ \A f \in DOMAIN futures :
             futures[f].kind = "reduce" =>
                <<futures[f].left, futures[f].right>> = plan[f - n]
       /\ pc = "returned" => ret = FoldWorklist(reducer, Partials)

C2_Witness ==
    /\ pc = "returned"
    /\ Len(ranges) >= 3
    /\ reducer = "concat"
    /\ ret = FoldWorklist(reducer, Partials)

\* C3: with an empty sequence of ranges ProcessAndMerge submits no task and
\* either returns the reducer's neutral result or fails with an explicit
\* empty-computation error.
Neutral(r) == IF r = "concat" THEN <<>> ELSE <<0>>
C3_EmptyRangesShortCircuit ==
    (ranges = <<>> /\ pc \in {"returned", "raised"}) =>
        /\ futures = <<>>
        /\ pc = "returned" => ret = Neutral(reducer)
        /\ pc = "raised" => raised = "EmptyComputationError"

-----------------------------------------------------------------------------
(* Properties of the registries and of backend selection (checked under    *)
(* Spec)                                                                    *)
RegOps == {"include_headers", "include_shared_libraries", "send_generic_files"}

\* every path of the argument is an existing file or directory
Resolves(arg) ==
    \A i \in 1..Len(arg.paths) : arg.paths[i] \in Files \cup Dirs

\* the files beneath the paths of an argument
FilesOf(arg) ==
    UNION {IF arg.paths[i] \in Dirs THEN Walk(arg.paths[i])
           ELSE {arg.paths[i]} \cap Files : i \in 1..Len(arg.paths)}

\* C4: after a successful call to a registration entry point every file
\* resolved from its argument is a member of that entry point's registry
\* set, and members are never removed.
C4_EachRegistryPopulated ==
    /\ [](/\ (last.op = "include_headers" /\ last.err = "none") =>
                FilesOf(last.arg) \subseteq includes_headers
          /\ (last.op = "include_shared_libraries" /\ last.err = "none") =>
                (FilesOf(last.arg) \cap LibraryFiles)
                    \subseteq includes_shared_libraries
          /\ (last.op = "send_generic_files" /\ last.err = "none") =>
                FilesOf(last.arg) \subseteq includes_files)
    /\ [][/\ includes_headers \subseteq includes_headers'
          /\ includes_shared_libraries \subseteq includes_shared_libraries'
          /\ includes_files \subseteq includes_files']_vars

\* C5: with a distributed backend active every artifact is pushed exactly
\* once: no file is pushed twice, and a registration call whose paths
\* resolve returns with each of its files pushed.
C5_PushedExactlyOnce ==
    /\ \A f \in Files : pushed[f] <= 1
    /\ (last.op \in RegOps /\ current_backend.kind # "Local"
        /\ Resolves(last.arg)) =>
          /\ last.err = "none"
          /\ \A f \in FilesOf(last.arg) :
                (last.op = "include_shared_libraries" =>
                    f \in LibraryFiles \cup PcmFiles) => pushed[f] = 1

\* C6: calling include_headers(p) a second time leaves includes_headers
\* equal to its value after the first call, and a call that returns leaves
\* p's files in the set.
C6_IncludeHeadersIdempotent ==
    [][\A a \in PathArgs :
          (last.op = "include_headers" /\ last.arg = a /\ include_headers(a))
          => /\ includes_headers' = includes_headers
             /\ last'.err = "none" => FilesOf(a) \subseteq includes_headers']_vars

C6_Witness ==
    /\ last.op = "include_headers"
    /\ last.again
    /\ last.err = "none"
    /\ last.arg = StrArg("lib")
    /\ includes_headers = Walk("lib")

\* C7: use() sets current_backend to a Local, Spark or Parsl instance for
\* 'local', 'spark' and 'parsl', fails with NotImplementedError for 'dask'
\* and with the generic Exception for every other name.
C7_UseDispatch ==
    last.op = "use" =>
        /\ last.name = "local" => (last.err = "none" /\ current_backend = Local)
        /\ last.name = "spark" => (last.err = "none" /\ current_backend = Spark)
        /\ last.name = "parsl" =>
              (last.err = "none" /\ current_backend.kind = "Parsl")
        /\ last.name = "dask" => last.err = "NotImplementedError"
        /\ last.name \notin {"local", "spark", "parsl", "dask"} =>
              last.err = "Exception"

\* C7 amended: as C7, except that 'parsl' sets current_backend to a Parsl
\* instance only when the Parsl constructor returns; otherwise the
\* constructor's own error reaches the caller, and it is neither the
\* not-yet-implemented error nor the generic selection error.
C7_UseDispatchUnlessConstructorFails ==
    last.op = "use" =>
        /\ last.name = "local" => (last.err = "none" /\ current_backend = Local)
        /\ last.name = "spark" => (last.err = "none" /\ current_backend = Spark)
        /\ last.name = "parsl" =>
              \/ last.err = "none" /\ current_backend.kind = "Parsl"
              \/ last.err \in {"KeyError", "AttributeError"}
        /\ last.name = "dask" => last.err = "NotImplementedError"
        /\ last.name \notin {"local", "spark", "parsl", "dask"} =>
              last.err = "Exception"

C7_Witness ==
    /\ last.op = "use"
    /\ last.name = "parsl"
    /\ last.err = "none"
    /\ current_backend.kind = "Parsl"

\* C8: a Parsl backend built from a configuration that names an executor
\* class and its parameters gets the explicit 'npartitions' when one is
\* given, otherwise the executor's max_threads when it has one, otherwise 4;
\* construction succeeds and the count is positive.
HasKeys(conf) ==
    /\ "executor" \in DOMAIN conf
    /\ conf["executor"] \in ExecutorClasses
    /\ "parameters" \in DOMAIN conf
Capacity(conf) ==
    IF "max_threads" \in DOMAIN conf["parameters"]
    THEN conf["parameters"]["max_threads"] ELSE None
C8_PartitionPrecedence ==
    (last.op = "use" /\ last.name = "parsl" /\ HasKeys(last.conf)) =>
        /\ last.err = "none"
        /\ current_backend.kind = "Parsl"
        /\ current_backend.npartitions > 0
        /\ current_backend.npartitions =
              IF "npartitions" \in DOMAIN last.conf
              THEN last.conf["npartitions"]
              ELSE IF Truthy(Capacity(last.conf))
              THEN Capacity(last.conf)[1]
              ELSE DefaultPartitions

\* C9: a registration entry point calls distribute_files if and only if
\* current_backend is not a Local instance.
C9_DistributeIffNotLocal ==
    last.op \in RegOps => (last.ndist > 0 <=> current_backend.kind # "Local")

\* C9 amended: a registration entry point calls distribute_files if and
\* only if current_backend is not a Local instance and every path of its
\* argument is an existing file or directory.
C9_DistributeIffNotLocalAndResolved ==
    last.op \in RegOps =>
        (last.ndist > 0 <=> (current_backend.kind # "Local" /\ Resolves(last.arg)))

C9_Witness ==
    /\ last.op = "include_headers"
    /\ current_backend.kind = "Local"
    /\ last.err = "none"
    /\ last.ndist = 0
    /\ "a.h" \in includes_headers

\* C10: in multi-worker mode check_supported accepts Histo1D as an Action
\* and Define as a Transformation, rejects Take, Snapshot, Foreach and Range
\* as unsupported and any other name as unknown; Take is accepted in
\* single-worker mode.
C10_CheckSupported ==
    last.op = "check_supported" =>
        /\ (last.mode = "multi_worker" /\ last.name = "Histo1D") =>
              (last.err = "none" /\ last.kind = "Action")
        /\ (last.mode = "multi_worker" /\ last.name = "Define") =>
              (last.err = "none" /\ last.kind = "Transformation")
        /\ (last.mode = "multi_worker"
            /\ last.name \in {"Take", "Snapshot", "Foreach", "Range"}) =>
              last.err = "UnsupportedOperationError"
        /\ last.name \notin {"Histo1D", "Define", "Take", "Snapshot",
                             "Foreach", "Range"} =>
              last.err = "UnknownOperationError"
        /\ (last.mode = "single_worker" /\ last.name = "Take") =>
              last.err = "none"

C10_Witness ==
    /\ last.op = "check_supported"
    /\ last.mode = "single_worker"
    /\ last.name = "Take"
    /\ last.err = "none"

-----------------------------------------------------------------------------
(* Failing calls of the driver session (checked under Spec) *)

\* C17: a registration call given a path that is neither an existing file
\* nor an existing directory, alone or as one element of an iterable whose
\* other elements exist, fails with an error before any file of the call is
\* distributed or declared and leaves the three registry sets unchanged.
C17_BadPathFailsBeforeAnyEffect ==
    [][(last'.op \in RegOps /\ ~Resolves(last'.arg))
          => /\ last'.err # "none"
             /\ last'.ndist = 0
             /\ pushed' = pushed
             /\ declared' = declared
             /\ includes_headers' = includes_headers
             /\ includes_shared_libraries' = includes_shared_libraries
             /\ includes_files' = includes_files]_vars

C17_Witness ==
    /\ last.op = "include_headers"
    /\ last.arg = IterArg(<<"a.h", "nofile">>)
    /\ last.err = "TypeError"
    /\ last.ndist = 0
    /\ current_backend.kind = "Spark"
    /\ includes_headers = Walk("lib")
    /\ "a.h" \notin declared
    /\ pushed["a.h"] = 0

\* C18: a failing use() call leaves current_backend unchanged, also when the
\* failure comes from the backend constructor; current_backend changes only
\* in a use() call that returns, so it is always the backend created by the
\* most recent successful call, initially a Local instance.
C18_FailingUseKeepsBackend ==
    [][/\ (last'.op = "use" /\ last'.err # "none")
             => current_backend' = current_backend
       /\ current_backend' # current_backend
             => (last'.op = "use" /\ last'.err = "none")]_vars

C18_Witness ==
    /\ last.op = "use"
    /\ last.name = "parsl"
    /\ "executor" \notin DOMAIN last.conf
    /\ last.err = "KeyError"
    /\ current_backend = Spark

-----------------------------------------------------------------------------
(* Initialization tasks (checked under SpecInit) *)

-----------------------------------------------------------------------------
(* Further properties of ProcessAndMerge (checked under SpecMerge) *)

\* C11: the ranges ProcessAndMerge obtains are ordered by increasing start,
\* contiguous, pairwise disjoint, never empty and cover exactly
\* [0, total_units); with total_units < npartitions there are exactly
\* total_units ranges of size 1.
C11_RangesPartitionTheInput ==
    pc # "idle" =>
        LET n == Len(ranges)
        IN /\ n = 0 <=> total_units = 0
           /\ n > 0 => (ranges[1].start = 0 /\ ranges[n].end = total_units)
           /\ \A i \in 1..n : ranges[i].start < ranges[i].end
           /\ \A i \in 2..n : ranges[i].start = ranges[i - 1].end
           /\ \A i \in 1..n : \A k \in (i + 1)..n :
                 ranges[i].end <= ranges[k].start
           /\ n <= current_backend.npartitions
           /\ total_units < current_backend.npartitions =>
                 /\ n = total_units
                 /\ \A i \in 1..n : ranges[i].end - ranges[i].start = 1

C11_Witness ==
    /\ pc # "idle"
    /\ total_units = 2
    /\ current_backend.npartitions = 3
    /\ Len(ranges) = 2

\* C13: a failed map or reduce task fails every reduce task that depends on
\* it and the final await; ProcessAndMerge never returns a value when some
\* task failed, and a failed task is never run again.
C13_FailurePropagates ==
    /\ [](/\ \A f \in DOMAIN futures :
                (/\ futures[f].kind = "reduce"
                 /\ futures[f].state # "pending"
                 /\ \/ futures[futures[f].left].state = "failed"
                    \/ futures[futures[f].right].state = "failed")
                => futures[f].state = "failed"
          /\ pc = "returned" =>
                \A f \in DOMAIN futures : futures[f].state = "done"
          /\ (pc = "raised" /\ ranges # <<>>) =>
                futures[awaited].state = "failed")
    /\ [][\A f \in DOMAIN futures :
             (futures[f].state = "failed" /\ f \in DOMAIN futures')
             => futures'[f].state = "failed"]_vars

C13_Witness ==
    /\ pc = "raised"
    /\ Len(ranges) = 3
    /\ futures[1].state = "failed"
    /\ futures[2].state = "done"
    /\ futures[3].state = "done"
    /\ futures[5].state = "failed"

\* C14: the driver waits only on the final future: when it waits, all n map
\* tasks and all n-1 reduce tasks have been submitted, and every submission
\* step can be taken whatever the state of the tasks submitted before it.
C14_OnlyFinalAwaitBlocks ==
    /\ pc = "await" =>
          /\ Len(futures) = 2 * Len(ranges) - 1
          /\ results = <<>>
          /\ awaited = Len(futures)
    /\ pc = "map" => ENABLED SubmitMap
    /\ (pc = "reduce" /\ Len(results) > 1) => ENABLED SubmitReduce
    /\ (pc = "reduce" /\ Len(results) <= 1) => ENABLED PopLast

C14_Witness ==
    /\ pc = "await"
    /\ Len(ranges) = 3
    /\ Len(futures) = 5
    /\ \A f \in DOMAIN futures : futures[f].state = "pending"

\* C15: a reduce task resolves only after both of its operand futures have
\* resolved, and the reducer receives the value of the operand removed
\* first from the worklist as its left argument and that of the operand
\* removed second as its right argument.
C15_ReduceRunsOnResolvedOperandsInOrder ==
    LET n == Len(ranges)
        plan == PairPlan([i \in 1..n |-> i], n + 1)
    IN \A f \in DOMAIN futures :
          futures[f].kind = "reduce" =>
             LET first == plan[f - n][1]
                 second == plan[f - n][2]
             IN /\ futures[f].state # "pending" =>
                      /\ futures[first].state # "pending"
                      /\ futures[second].state # "pending"
                /\ futures[f].state = "done" =>
                      /\ futures[first].state = "done"
                      /\ futures[second].state = "done"
                      /\ futures[f].value =
                            Reducer(reducer, futures[first].value,
                                    futures[second].value)

C15_Witness ==
    /\ Len(ranges) = 3
    /\ reducer = "concat"
    /\ mapper = "start"
    /\ Len(futures) = 5
    /\ futures[5].state = "done"
    /\ futures[5].value = <<2, 0, 1>>

\* C16: with n >= 1 ranges and every submitted task eventually run, a
\* ProcessAndMerge call eventually ends: it returns, or raises when a task
\* failed; and it returns only when every map task has completed, so a map
\* task that never completes keeps it from returning.
C16_ReturnsWhenAndOnlyWhenTasksComplete ==
    /\ (pc \in {"map", "reduce", "await"} /\ Len(ranges) >= 1)
          ~> \/ pc = "returned"
             \/ /\ pc = "raised"
                /\ \E f \in DOMAIN futures : futures[f].state = "failed"
    /\ [](pc = "returned" =>
            /\ Len(futures) >= Len(ranges)
            /\ \A f \in 1..Len(ranges) : futures[f].state = "done")

C16_Witness ==
    /\ pc = "returned"
    /\ Len(ranges) = 5
    /\ \A f \in DOMAIN futures : futures[f].state = "done"

\* the map futures beneath a future of the reduction tree, left to right
RECURSIVE LeavesOf(_)
LeavesOf(f) ==
    IF futures[f].kind = "map" THEN <<f>>
    ELSE LeavesOf(futures[f].left) \o LeavesOf(futures[f].right)

\* the number of reduce tasks a future is an operand of, counting sides
OperandCount(g) ==
    Cardinality({f \in DOMAIN futures :
                    futures[f].kind = "reduce" /\ futures[f].left = g})
    + Cardinality({f \in DOMAIN futures :
                    futures[f].kind = "reduce" /\ futures[f].right = g})

\* C19: for n >= 1 ranges the worklist loop makes exactly n-1 reduce
\* submissions and leaves exactly one future; each submission shrinks the
\* worklist by one; every range's partial result is an operand of the
\* resulting reduction tree exactly once.
C19_WorklistLoop ==
    LET n == Len(ranges)
        reduces == {f \in DOMAIN futures : futures[f].kind = "reduce"}
        inList == {results[i] : i \in 1..Len(results)}
    IN (n >= 1 /\ pc # "idle") =>
        /\ pc = "reduce" =>
              /\ Len(results) = n - Cardinality(reduces)
              /\ Len(results) >= 1
        /\ pc \in {"await", "returned", "raised"} =>
              /\ Cardinality(reduces) = n - 1
              /\ results = <<>>
              /\ awaited \in DOMAIN futures
              /\ OperandCount(awaited) = 0
              /\ Len(LeavesOf(awaited)) = n
              /\ {LeavesOf(awaited)[i] : i \in 1..n} = 1..n
        /\ Cardinality(inList) = Len(results)
        /\ \A g \in DOMAIN futures :
              OperandCount(g) =
                 IF g \in inList THEN 0
                 ELSE IF pc \in {"await", "returned", "raised"} /\ g = awaited
                 THEN 0 ELSE 1

C19_Witness ==
    /\ pc = "await"
    /\ Len(ranges) = 5
    /\ Len(futures) = 9
    /\ LeavesOf(awaited) = <<3, 4, 5, 1, 2>>

\* the longest chain of reduce tasks from a map task up to future f
RECURSIVE Depth(_)
Depth(f) ==
    IF futures[f].kind = "map" THEN 0
    ELSE LET dl == Depth(futures[f].left)
             dr == Depth(futures[f].right)
         IN 1 + (IF dl >= dr THEN dl ELSE dr)

CeilLog2(n) == CHOOSE k \in 0..n : 2^k >= n /\ (k = 0 \/ 2^(k - 1) < n)

\* the order of the map futures in the final tree as a function of n alone
LeafOrder(n) == FoldWorklist("concat", [i \in 1..n |-> <<i>>])

\* C20 as stated: the tree is fixed by n, its longest chain of reduce tasks
\* has length ceil(log2(n)), and for n >= 3 that is never n-1.
C20_BalancedNeverLinearFrom3 ==
    LET n == Len(ranges)
    IN (n >= 1 /\ pc \in {"await", "returned", "raised"}) =>
          /\ LeavesOf(awaited) = LeafOrder(n)
          /\ Depth(awaited) = CeilLog2(n)
          /\ n >= 3 => Depth(awaited) # n - 1

\* C20 (amended): the dependency tree is determined by the number of ranges
\* n alone, whatever the completion timing, and its longest chain of reduce
\* tasks from a map task to the final future has length ceil(log2(n)), which
\* is shorter than a linear chain of n-1 reduces for n >= 4 (for n = 3 the
\* two coincide: ceil(log2(3)) = 2 = n-1).
C20_BalancedNeverLinearFrom4 ==
    LET n == Len(ranges)
    IN (n >= 1 /\ pc \in {"await", "returned", "raised"}) =>
          /\ LeavesOf(awaited) = LeafOrder(n)
          /\ Depth(awaited) = CeilLog2(n)
          /\ n >= 4 => Depth(awaited) < n - 1
          /\ n = 3 => Depth(awaited) = n - 1

C20_Witness ==
    /\ pc = "returned"
    /\ Len(ranges) = 5
    /\ Depth(awaited) = 3
    /\ \E f \in DOMAIN futures : futures[f].state = "done" /\ futures[f].kind = "reduce"

====
